---- MODULE Spec2Model ----
(***************************************************************************)
(* Colour sampling and mixture analysis (color_picker.py).                 *)
(*                                                                         *)
(* Three specifications share the definitions below:                       *)
(*   Spec       - the application: the colour-list handlers and            *)
(*                run_analysis, each handler one atomic step (Qt runs a    *)
(*                slot to completion on the GUI thread);                   *)
(*   SpecEngine - analyze_color_mix as a function of its arguments, called *)
(*                twice on the same colours with two thresholds;           *)
(*   SpecConc   - run_analysis executed line by line while the colour-list *)
(*                handlers run in between.                                 *)
(*                                                                         *)
(* float64 values are held in fixed point: a normalised channel in units   *)
(* of 1/NormUnit, a mixing coefficient in units of 1/AlphaUnit.            *)
(* scipy.optimize.nnls is library code; it is modelled by what it          *)
(* computes, the non-negative least-squares minimisers, over the           *)
(* coefficient grid AlphaGrid.                                             *)
(***************************************************************************)
EXTENDS Integers, Sequences, FiniteSets, TLC

VARIABLES
    picked_colors,   \* the global colour list (line 17)
    base_list,       \* items of the base QListWidget
    target_list,     \* items of the target QListWidget
    pc,              \* position of the call in progress
    base_colors,     \* argument / local of run_analysis and analyze_color_mix
    target_colors,   \* argument / local of run_analysis and analyze_color_mix
    threshold,       \* threshold of the call
    threshold2,      \* threshold of the second call on the same colours
    base_arr,        \* local of analyze_color_mix (line 30)
    base_hex,        \* local of analyze_color_mix (line 31)
    results,         \* results of the call
    results2,        \* results of the second call
    solverCalls,     \* number of nnls invocations made by the call
    raised,          \* exception leaving the call, "none" when it returns
    handler,         \* the handler or function that ran last
    message,         \* message box shown by the last handler
    excel_data,      \* excel_data built by create_analysis_table
    sheet,           \* cells written to the workbook by run_analysis
    base_alias,      \* for each entry of base_colors, where its dict sits in picked_colors
    target_alias,    \* the same for target_colors
    usedBasis,       \* for each result, the basis its solve was given
    mutations        \* list handlers run since the call began

vars == <<picked_colors, base_list, target_list, pc, base_colors, target_colors,
          threshold, threshold2, base_arr, base_hex, results, results2,
          solverCalls, raised, handler, message, excel_data, sheet, base_alias,
          target_alias, usedBasis, mutations>>

listVars == <<picked_colors, base_list, target_list>>
-----------------------------------------------------------------------------
(* Bounds *)

MaxColors == 3
MaxBases == 2
MaxTargets == 2
MaxTokens == 2
MaxMutations == 1

-----------------------------------------------------------------------------
(* Values *)

NormUnit == 1000
AlphaUnit == 10000
MaxChannel == 255

\* 1e-3, the negligibility cutoff of lines 39 and 269
Cutoff == AlphaUnit \div 1000

\* 0.05, the default threshold of line 24
DefaultThreshold == NormUnit \div 20

BaseLabel == "base"
TargetLabel == "target"
NoCustom == "<no CustomLabel key>"

\* pixels an image may hold
Pixels == {<<255, 0, 0>>, <<128, 128, 0>>}

\* a triple with a channel outside [0,255]
BadRGB == <<300, 0, 0>>

\* label texts a dialog may return after strip(); "" is an empty or blank text
Texts == {"", "a"}

\* what QInputDialog.getText returns to edit_label: (ok, text)
Dialogs == {<<FALSE, "a">>, <<TRUE, "">>, <<TRUE, "a">>}

\* coefficients the solver may return, in units of 1/AlphaUnit
AlphaGrid == {0, 5020, 9961, 10000}

ThresholdVals == {0 - DefaultThreshold, 0, DefaultThreshold}

-----------------------------------------------------------------------------
(* Helpers *)

RECURSIVE SumTo(_, _)
SumTo(f, n) == IF n = 0 THEN 0 ELSE f[n] + SumTo(f, n - 1)

RECURSIVE Newton(_, _)
Newton(n, x) ==
    LET y == (x + n \div x) \div 2
    IN  IF y >= x THEN x ELSE Newton(n, y)

\* floor of the square root
Isqrt(n) == IF n = 0 THEN 0 ELSE Newton(n, n)

\* "{:02x}".format(c)
Hex2(c) ==
    IF c < 256 THEN <<c \div 16, c % 16>>
               ELSE <<c \div 256, (c \div 16) % 16, c % 16>>

\* "#{:02x}{:02x}{:02x}".format(r, g, b)
HexOf(rgb) == Hex2(rgb[1]) \o Hex2(rgb[2]) \o Hex2(rgb[3])

Color(rgb, label, custom) ==
    [RGB |-> rgb, HEX |-> HexOf(rgb), Label |-> label, CustomLabel |-> custom]

\* color.get("CustomLabel", color["Label"])
DisplayLabel(color) ==
    IF color.CustomLabel = NoCustom THEN color.Label ELSE color.CustomLabel

-----------------------------------------------------------------------------
(* analyze_color_mix *)

normalize_rgb(rgb) == [c \in 1..3 |-> (rgb[c] * NormUnit) \div MaxChannel]

\* np.dot(alpha, base_arr)
Fitted(alpha, arr) ==
    [c \in 1..3 |->
        SumTo([i \in 1..Len(arr) |-> alpha[i] * arr[i][c]], Len(arr)) \div AlphaUnit]

\* np.linalg.norm(fitted - target_rgb)
ErrorNorm(fitted, target_rgb) ==
    Isqrt(SumTo([c \in 1..3 |-> (fitted[c] - target_rgb[c]) * (fitted[c] - target_rgb[c])], 3))

ResidSq(alpha, arr, target_rgb) ==
    LET f == Fitted(alpha, arr)
    IN  SumTo([c \in 1..3 |-> (f[c] - target_rgb[c]) * (f[c] - target_rgb[c])], 3)

\* nnls(base_arr.T, target_rgb): the coefficient vectors alpha >= 0, one entry per
\* column, that minimise the residual
Nnls(arr, target_rgb) ==
    LET cands == [1..Len(arr) -> AlphaGrid]
        resids == {ResidSq(a, arr, target_rgb) : a \in cands}
        least == CHOOSE m \in resids : \A r \in resids : m <= r
    IN  {a \in cands : ResidSq(a, arr, target_rgb) = least}

\* variant: the guard written with "and"
EarlyReturnBoth(bases, targets) == bases = <<>> /\ targets = <<>>

EarlyReturn(bases, targets) == bases = <<>> \/ targets = <<>>

BaseArr(bases) == [i \in 1..Len(bases) |-> normalize_rgb(bases[i].RGB)]

BaseHex(bases) == [i \in 1..Len(bases) |-> bases[i].HEX]

RECURSIVE ContributingFrom(_, _, _, _)
ContributingFrom(hex, alpha, i, n) ==
    IF i > n THEN <<>>
    ELSE (IF alpha[i] > Cutoff THEN <<<<hex[i], alpha[i]>>>> ELSE <<>>)
         \o ContributingFrom(hex, alpha, i + 1, n)

\* variant: no cutoff, every coefficient is listed
ContributingAll(hex, alpha, arr) == [i \in 1..Len(arr) |-> <<hex[i], alpha[i]>>]

\* line 39
Contributing(hex, alpha, arr) == ContributingFrom(hex, alpha, 1, Len(arr))

\* variant: the comparison written strict
SuccessStrict(error, thr) == error < thr

\* line 45
Success(error, thr) == error <= thr

\* lines 34-49, given what nnls returned
MixResult(target, alpha, arr, hex, thr) ==
    LET target_rgb == normalize_rgb(target.RGB)
        fitted == Fitted(alpha, arr)
        error == ErrorNorm(fitted, target_rgb)
    IN  [target_color |-> target.HEX,
         target_label |-> DisplayLabel(target),
         target_rgb |-> target.RGB,
         success |-> Success(error, thr),
         error |-> error,
         alpha |-> alpha,
         contributions |-> Contributing(hex, alpha, arr)]

\* the solver outputs of one call: one alpha per target, in target order
RECURSIVE Solutions(_, _, _)
Solutions(arr, targets, n) ==
    IF n = 0 THEN {<<>>}
    ELSE {Append(s, a) : s \in Solutions(arr, targets, n - 1),
                         a \in Nnls(arr, normalize_rgb(targets[n].RGB))}

\* variant: only the targets that could be mixed are reported
analyze_skip_failed(bases, targets, thr, sol) ==
    IF EarlyReturn(bases, targets) THEN <<>>
    ELSE SelectSeq([i \in 1..Len(targets) |->
                      MixResult(targets[i], sol[i], BaseArr(bases), BaseHex(bases), thr)],
                   LAMBDA r : r.success)

\* lines 24-50, given the solver outputs sol
analyze_color_mix(bases, targets, thr, sol) ==
    IF EarlyReturn(bases, targets) THEN <<>>
    ELSE [i \in 1..Len(targets) |->
            MixResult(targets[i], sol[i], BaseArr(bases), BaseHex(bases), thr)]

\* variant: an empty basis is reported by an exception
RaisedEmptyBasis(bases, targets) == IF bases = <<>> THEN "EmptyBasis" ELSE "none"

\* lines 24-50 hold no raise statement: the guard returns, the loop appends
RaisedBy(bases, targets) == "none"

\* the nnls invocations of one call
SolverCallsOf(bases, targets) ==
    IF EarlyReturn(bases, targets) THEN 0 ELSE Len(targets)

-----------------------------------------------------------------------------
(* SpecEngine: analyze_color_mix on arbitrary arguments *)

RECURSIVE SeqsUpTo(_, _)
SeqsUpTo(S, n) ==
    IF n = 0 THEN {<<>>}
    ELSE SeqsUpTo(S, n - 1) \cup
         {Append(s, x) : s \in {t \in SeqsUpTo(S, n - 1) : Len(t) = n - 1}, x \in S}

EngineBases == {Color(rgb, BaseLabel, NoCustom) : rgb \in Pixels \cup {BadRGB}}

EngineTargets ==
    {Color(rgb, TargetLabel, c) : rgb \in Pixels \cup {BadRGB}, c \in {NoCustom, "a"}}

IdleCall ==
    /\ base_arr = <<>> /\ base_hex = <<>>
    /\ results = <<>> /\ results2 = <<>>
    /\ solverCalls = 0 /\ raised = "none"
    /\ excel_data = [keys |-> <<>>, cols |-> <<>>] /\ sheet = <<>>
    /\ base_alias = <<>> /\ target_alias = <<>>
    /\ usedBasis = <<>> /\ mutations = 0

EngineInit ==
    /\ picked_colors = <<>> /\ base_list = <<>> /\ target_list = <<>>
    /\ message = "none" /\ handler = "none"
    /\ pc = "call"
    /\ base_colors \in SeqsUpTo(EngineBases, MaxBases)
    /\ target_colors \in SeqsUpTo(EngineTargets, MaxTargets)
    /\ threshold \in ThresholdVals
    /\ threshold2 = DefaultThreshold
    /\ IdleCall

\* the guard of lines 27-28 returns the empty list
AnalyzeEmpty ==
    /\ pc = "call"
    /\ EarlyReturn(base_colors, target_colors)
    /\ results' = analyze_color_mix(base_colors, target_colors, threshold, <<>>)
    /\ results2' = analyze_color_mix(base_colors, target_colors, threshold2, <<>>)
    /\ solverCalls' = SolverCallsOf(base_colors, target_colors)
    /\ base_arr' = <<>> /\ base_hex' = <<>>
    /\ pc' = "returned"
    /\ raised' = RaisedBy(base_colors, target_colors)
    /\ handler' = "analyze_color_mix"
    /\ UNCHANGED <<listVars, base_colors, target_colors, threshold, threshold2,
                   message, excel_data, sheet, base_alias, target_alias, usedBasis,
                   mutations>>

\* lines 30-50
AnalyzeSolve ==
    /\ pc = "call"
    /\ ~EarlyReturn(base_colors, target_colors)
    /\ \E sol \in Solutions(BaseArr(base_colors), target_colors, Len(target_colors)) :
          /\ results' = analyze_color_mix(base_colors, target_colors, threshold, sol)
          /\ results2' = analyze_color_mix(base_colors, target_colors, threshold2, sol)
    /\ solverCalls' = SolverCallsOf(base_colors, target_colors)
    /\ base_arr' = BaseArr(base_colors)
    /\ base_hex' = BaseHex(base_colors)
    /\ pc' = "returned"
    /\ raised' = RaisedBy(base_colors, target_colors)
    /\ handler' = "analyze_color_mix"
    /\ UNCHANGED <<listVars, base_colors, target_colors, threshold, threshold2,
                   message, excel_data, sheet, base_alias, target_alias, usedBasis,
                   mutations>>

EngineNext == AnalyzeEmpty \/ AnalyzeSolve

SpecEngine == EngineInit /\ [][EngineNext]_vars

-----------------------------------------------------------------------------
(* The colour list and its two list widgets *)

\* item text and icon (lines 123-131), and the index kept under Qt.UserRole
Item(i, color) ==
    [idx |-> i,
     text |-> <<DisplayLabel(color), color.HEX, color.RGB>>,
     icon |-> color.RGB]

RECURSIVE ItemsFrom(_, _, _)
ItemsFrom(colors, label, i) ==
    IF i > Len(colors) THEN <<>>
    ELSE (IF colors[i].Label = label THEN <<Item(i, colors[i])>> ELSE <<>>)
         \o ItemsFrom(colors, label, i + 1)

\* variant: an item keeps its row in its own widget instead of the global index
refresh_list_rows(colors, label) ==
    LET items == ItemsFrom(colors, label, 1)
    IN  [r \in 1..Len(items) |-> [items[r] EXCEPT !.idx = r]]

\* refresh_lists, the items added to one widget: base_list takes the colours
\* labelled base (line 133), target_list every other colour (line 135)
refresh_list(colors, label) == ItemsFrom(colors, label, 1)

\* list.pop(idx)
PopAt(s, idx) == SubSeq(s, 1, idx - 1) \o SubSeq(s, idx + 1, Len(s))

SetCustomLabel(color, label) == [color EXCEPT !.CustomLabel = label]

\* labels of line 203: the tokens that are not blank
ParseLabels(tokens) == SelectSeq(tokens, LAMBDA t : t /= "")

\* lines 209-211
AssignLabels(colors, labels) ==
    [i \in 1..Len(colors) |->
        IF i <= Len(labels) THEN SetCustomLabel(colors[i], labels[i]) ELSE colors[i]]

Refreshed ==
    /\ base_list' = refresh_list(picked_colors', BaseLabel)
    /\ target_list' = refresh_list(picked_colors', TargetLabel)

ListOf(which) == IF which = BaseLabel THEN base_list ELSE target_list

\* get_pixel_color (lines 156-194): a click on a pixel of the loaded image
get_pixel_color(rgb, label) ==
    /\ Len(picked_colors) < MaxColors
    /\ picked_colors' = Append(picked_colors, Color(rgb, label, NoCustom))
    /\ Refreshed
    /\ message' = "none"
    /\ handler' = "get_pixel_color"

\* import_labels (lines 196-214); tokens are the pieces of text.split(","), stripped
import_labels(ok, tokens) ==
    /\ handler' = "import_labels"
    /\ IF ~ok \/ tokens = <<"">>
       THEN /\ UNCHANGED listVars
            /\ message' = "none"
       ELSE IF ParseLabels(tokens) = <<>>
       THEN /\ UNCHANGED listVars
            /\ message' = "labels empty"
       ELSE /\ picked_colors' = AssignLabels(picked_colors, ParseLabels(tokens))
            /\ Refreshed
            /\ message' = "labels imported"

\* clear_colors (lines 333-337)
clear_colors ==
    /\ picked_colors' = <<>>
    /\ Refreshed
    /\ message' = "none"
    /\ handler' = "clear_colors"

\* show_context_menu, delete branch (lines 348-352), on the item at a row
delete_color(which, row) ==
    /\ row \in 1..Len(ListOf(which))
    /\ picked_colors' = PopAt(picked_colors, ListOf(which)[row].idx)
    /\ Refreshed
    /\ message' = "none"
    /\ handler' = "delete"

\* edit_label (lines 356-365), reached by a double click or the menu's edit branch
edit_label(which, row, ok, text) ==
    /\ row \in 1..Len(ListOf(which))
    /\ LET idx == ListOf(which)[row].idx
       IN  IF ok /\ text /= ""
           THEN /\ picked_colors' =
                      [picked_colors EXCEPT ![idx] = SetCustomLabel(@, text)]
                /\ Refreshed
           ELSE UNCHANGED listVars
    /\ message' = "none"
    /\ handler' = "edit_label"

-----------------------------------------------------------------------------
(* create_analysis_table and the export of run_analysis *)

TargetKey == <<"target column">>

\* f"{label}({hex_code})"
KeyOf(color) == <<DisplayLabel(color), color.HEX>>

\* f"{alpha_val:.3f}": the integer part and three decimals
Fmt3(a) ==
    LET m == (a * 1000 + AlphaUnit \div 2) \div AlphaUnit
    IN  <<m \div 1000, (m \div 100) % 10, (m \div 10) % 10, m % 10>>

\* lines 269-274; <<>> is the empty string
Cell(a) == IF a > Cutoff THEN Fmt3(a) ELSE <<>>

RECURSIVE DictKeys(_, _)
DictKeys(keys, rest) ==
    IF rest = <<>> THEN keys
    ELSE DictKeys(IF \E i \in 1..Len(keys) : keys[i] = Head(rest)
                  THEN keys ELSE Append(keys, Head(rest)),
                  Tail(rest))

\* the keys of the dict of lines 253-256, in insertion order
ExcelKeys(bases) ==
    DictKeys(<<TargetKey>>, [i \in 1..Len(bases) |-> KeyOf(bases[i])])

RECURSIVE FillRow(_, _, _, _)
FillRow(cols, bases, alpha, j) ==
    IF j > Len(alpha) THEN cols
    ELSE FillRow([cols EXCEPT ![KeyOf(bases[j])] = Append(@, Cell(alpha[j]))],
                 bases, alpha, j + 1)

RECURSIVE FillRows(_, _, _, _)
FillRows(cols, bases, res, r) ==
    IF r > Len(res) THEN cols
    ELSE FillRows(FillRow([cols EXCEPT ![TargetKey] = Append(@, res[r].target_color)],
                          bases, res[r].alpha, 1),
                  bases, res, r + 1)

\* excel_data as create_analysis_table returns it (lines 252-281)
ExcelData(res, bases) ==
    LET keys == ExcelKeys(bases)
        keyset == {keys[i] : i \in 1..Len(keys)}
    IN  [keys |-> keys,
         cols |-> FillRows([k \in keyset |-> <<>>], bases, res, 1)]

\* the cell values of the workbook (lines 304-326): the header row, then one row
\* per entry of the target column
Workbook(xl) ==
    LET headers == xl.keys
        n == Len(xl.cols[TargetKey])
    IN  <<headers>> \o
        [r \in 1..n |-> [c \in 1..Len(headers) |-> xl.cols[headers[c]][r]]]

RoleFilter(colors, label) == SelectSeq(colors, LAMBDA c : c.Label = label)

-----------------------------------------------------------------------------
(* Spec: the application *)

\* the locals of an earlier run_analysis are gone
ForgetCall ==
    /\ base_colors' = <<>> /\ target_colors' = <<>>
    /\ base_arr' = <<>> /\ base_hex' = <<>>
    /\ results' = <<>>
    /\ solverCalls' = 0
    /\ excel_data' = [keys |-> <<>>, cols |-> <<>>]
    /\ sheet' = <<>>
    /\ UNCHANGED <<threshold, threshold2, results2, raised, base_alias, target_alias,
                   usedBasis, mutations, pc>>

Init ==
    /\ picked_colors = <<>> /\ base_list = <<>> /\ target_list = <<>>
    /\ message = "none" /\ handler = "none"
    /\ pc = "idle"
    /\ base_colors = <<>> /\ target_colors = <<>>
    /\ threshold = DefaultThreshold /\ threshold2 = DefaultThreshold
    /\ IdleCall

Sample ==
    /\ \E rgb \in Pixels, label \in {BaseLabel, TargetLabel} : get_pixel_color(rgb, label)
    /\ ForgetCall

ImportLabels ==
    /\ \/ import_labels(FALSE, <<"a">>)
       \/ \E tokens \in SeqsUpTo(Texts, MaxTokens) \ {<<>>} : import_labels(TRUE, tokens)
    /\ ForgetCall

ClearColors == clear_colors /\ ForgetCall

DeleteColor ==
    /\ \E which \in {BaseLabel, TargetLabel}, row \in 1..MaxColors + 1 :
          delete_color(which, row)
    /\ ForgetCall

EditLabel ==
    /\ \E which \in {BaseLabel, TargetLabel}, row \in 1..MaxColors + 1, d \in Dialogs :
          edit_label(which, row, d[1], d[2])
    /\ ForgetCall

\* run_analysis (lines 283-331)
RunAnalysis ==
    LET bases == RoleFilter(picked_colors, BaseLabel)
        targets == RoleFilter(picked_colors, TargetLabel)
    IN  /\ handler' = "run_analysis"
        /\ base_colors' = bases
        /\ target_colors' = targets
        /\ IF bases = <<>> \/ targets = <<>>
           THEN /\ message' = "need a base and a target"
                /\ results' = <<>>
                /\ solverCalls' = 0
                /\ base_arr' = <<>> /\ base_hex' = <<>>
                /\ excel_data' = [keys |-> <<>>, cols |-> <<>>]
                /\ sheet' = <<>>
           ELSE /\ \E sol \in Solutions(BaseArr(bases), targets, Len(targets)) :
                      results' = analyze_color_mix(bases, targets, DefaultThreshold, sol)
                /\ solverCalls' = SolverCallsOf(bases, targets)
                /\ base_arr' = BaseArr(bases)
                /\ base_hex' = BaseHex(bases)
                /\ excel_data' = ExcelData(results', bases)
                /\ sheet' = Workbook(excel_data')
                /\ message' = "exported"
        /\ UNCHANGED <<listVars, threshold, threshold2, results2, raised, base_alias,
                       target_alias, usedBasis, mutations, pc>>

Next ==
    \/ Sample
    \/ ImportLabels
    \/ ClearColors
    \/ DeleteColor
    \/ EditLabel
    \/ RunAnalysis

Spec == Init /\ [][Next]_vars

-----------------------------------------------------------------------------
(* SpecConc: run_analysis line by line, the list handlers running in between *)

RECURSIVE PositionsFrom(_, _, _)
PositionsFrom(colors, label, i) ==
    IF i > Len(colors) THEN <<>>
    ELSE (IF colors[i].Label = label THEN <<i>> ELSE <<>>)
         \o PositionsFrom(colors, label, i + 1)

\* the dicts of a list comprehension of lines 285-286 are the dicts of
\* picked_colors: for each entry, its position there
AliasOf(colors, label) == PositionsFrom(colors, label, 1)

\* a local list after a handler wrote CustomLabel into dicts of picked_colors
Reread(local, alias) ==
    [i \in 1..Len(local) |->
        IF alias[i] = 0 THEN local[i] ELSE picked_colors'[alias[i]]]

\* the aliases after list.pop(idx): the popped dict is no longer in the list
AfterPop(alias, idx) ==
    [i \in 1..Len(alias) |->
        IF alias[i] = idx THEN 0
        ELSE IF alias[i] > idx THEN alias[i] - 1 ELSE alias[i]]

ConcColors == {Color(rgb, l, NoCustom) : rgb \in Pixels, l \in {BaseLabel, TargetLabel}}

ConcInit ==
    /\ picked_colors \in SeqsUpTo(ConcColors, MaxColors)
    /\ base_list = refresh_list(picked_colors, BaseLabel)
    /\ target_list = refresh_list(picked_colors, TargetLabel)
    /\ message = "none" /\ handler = "none"
    /\ pc = "idle"
    /\ base_colors = <<>> /\ target_colors = <<>>
    /\ threshold = DefaultThreshold /\ threshold2 = DefaultThreshold
    /\ IdleCall

\* lines 285-290
RA_Filter ==
    /\ pc = "idle"
    /\ base_colors' = RoleFilter(picked_colors, BaseLabel)
    /\ target_colors' = RoleFilter(picked_colors, TargetLabel)
    /\ base_alias' = AliasOf(picked_colors, BaseLabel)
    /\ target_alias' = AliasOf(picked_colors, TargetLabel)
    /\ handler' = "run_analysis"
    /\ IF base_colors' = <<>> \/ target_colors' = <<>>
       THEN message' = "need a base and a target" /\ pc' = "done"
       ELSE message' = "none" /\ pc' = "snapshot"
    /\ UNCHANGED <<listVars, threshold, threshold2, base_arr, base_hex, results,
                   results2, solverCalls, raised, excel_data, sheet, usedBasis,
                   mutations>>

\* lines 26-31
AN_Snapshot ==
    /\ pc = "snapshot"
    /\ ~EarlyReturn(base_colors, target_colors)
    /\ base_arr' = BaseArr(base_colors)
    /\ base_hex' = BaseHex(base_colors)
    /\ pc' = "loop"
    /\ UNCHANGED <<listVars, base_colors, target_colors, threshold, threshold2,
                   results, results2, solverCalls, raised, handler, message,
                   excel_data, sheet, base_alias, target_alias, usedBasis, mutations>>

\* variant: each iteration rebuilds the basis from the global colour list
LiveBasis ==
    <<BaseArr(RoleFilter(picked_colors, BaseLabel)),
      BaseHex(RoleFilter(picked_colors, BaseLabel))>>

\* the basis an iteration of the loop reads: the locals of lines 30-31
LoopBasis == <<base_arr, base_hex>>

\* lines 33-49, one iteration
AN_Target ==
    /\ pc = "loop"
    /\ Len(results) < Len(target_colors)
    /\ LET target == target_colors[Len(results) + 1]
           basis == LoopBasis
       IN  /\ \E alpha \in Nnls(basis[1], normalize_rgb(target.RGB)) :
                 results' = Append(results,
                     MixResult(target, alpha, basis[1], basis[2], threshold))
           /\ usedBasis' = Append(usedBasis, basis)
    /\ solverCalls' = solverCalls + 1
    /\ UNCHANGED <<listVars, pc, base_colors, target_colors, threshold, threshold2,
                   base_arr, base_hex, results2, raised, handler, message,
                   excel_data, sheet, base_alias, target_alias, mutations>>

\* line 50
AN_Return ==
    /\ pc = "loop"
    /\ Len(results) = Len(target_colors)
    /\ pc' = "done"
    /\ UNCHANGED <<listVars, base_colors, target_colors, threshold, threshold2,
                   base_arr, base_hex, results, results2, solverCalls, raised,
                   handler, message, excel_data, sheet, base_alias, target_alias,
                   usedBasis, mutations>>

\* a list handler runs while the call is in progress
During ==
    /\ pc \in {"snapshot", "loop"}
    /\ mutations < MaxMutations
    /\ mutations' = mutations + 1
    /\ UNCHANGED <<pc, threshold, threshold2, base_arr, base_hex, results, results2,
                   solverCalls, raised, excel_data, sheet, usedBasis>>

ConcSample ==
    /\ \E rgb \in Pixels, label \in {BaseLabel, TargetLabel} : get_pixel_color(rgb, label)
    /\ During
    /\ UNCHANGED <<base_colors, target_colors, base_alias, target_alias>>

ConcImportLabels ==
    /\ \/ import_labels(FALSE, <<"a">>)
       \/ \E tokens \in SeqsUpTo(Texts, MaxTokens) \ {<<>>} : import_labels(TRUE, tokens)
    /\ During
    /\ base_colors' = Reread(base_colors, base_alias)
    /\ target_colors' = Reread(target_colors, target_alias)
    /\ UNCHANGED <<base_alias, target_alias>>

ConcEditLabel ==
    /\ \E which \in {BaseLabel, TargetLabel}, row \in 1..MaxColors + 1, d \in Dialogs :
          edit_label(which, row, d[1], d[2])
    /\ During
    /\ base_colors' = Reread(base_colors, base_alias)
    /\ target_colors' = Reread(target_colors, target_alias)
    /\ UNCHANGED <<base_alias, target_alias>>

ConcDeleteColor ==
    /\ \E which \in {BaseLabel, TargetLabel}, row \in 1..MaxColors + 1 :
          /\ delete_color(which, row)
          /\ base_alias' = AfterPop(base_alias, ListOf(which)[row].idx)
          /\ target_alias' = AfterPop(target_alias, ListOf(which)[row].idx)
    /\ During
    /\ UNCHANGED <<base_colors, target_colors>>

ConcClearColors ==
    /\ clear_colors
    /\ During
    /\ base_alias' = [i \in 1..Len(base_alias) |-> 0]
    /\ target_alias' = [i \in 1..Len(target_alias) |-> 0]
    /\ UNCHANGED <<base_colors, target_colors>>

ConcNext ==
    \/ RA_Filter
    \/ AN_Snapshot
    \/ AN_Target
    \/ AN_Return
    \/ ConcSample
    \/ ConcImportLabels
    \/ ConcEditLabel
    \/ ConcDeleteColor
    \/ ConcClearColors

SpecConc == ConcInit /\ [][ConcNext]_vars

-----------------------------------------------------------------------------
(* Properties of analyze_color_mix (SpecEngine) *)

Returned == pc = "returned"

\* C1: a call with a non-empty base sequence and a non-empty target sequence
\* returns, without an exception, exactly one result per target, in the targets'
\* order, result i carrying the hex, rgb and label of target i.
C1_OneResultPerTarget ==
    (Returned /\ base_colors /= <<>> /\ target_colors /= <<>>) =>
        /\ raised = "none"
        /\ Len(results) = Len(target_colors)
        /\ \A i \in 1..Len(target_colors) :
              /\ results[i].target_color = target_colors[i].HEX
              /\ results[i].target_rgb = target_colors[i].RGB
              /\ results[i].target_label =
                    (IF target_colors[i].CustomLabel = NoCustom
                     THEN target_colors[i].Label
                     ELSE target_colors[i].CustomLabel)

\* two different targets, the first of which cannot be mixed
C1_Witness ==
    /\ Returned
    /\ base_colors /= <<>>
    /\ Len(target_colors) = 2
    /\ target_colors[1].HEX /= target_colors[2].HEX
    /\ target_colors[1].CustomLabel /= target_colors[2].CustomLabel
    /\ Len(results) = 2
    /\ ~results[1].success /\ results[2].success

\* the indices whose coefficient exceeds the cutoff
Significant(alpha) == {i \in DOMAIN alpha : alpha[i] > Cutoff}

\* the j-th smallest element of a set of indices
NthOf(S, j) == CHOOSE i \in S : Cardinality({m \in S : m < i}) = j - 1

\* C2: every result has one coefficient per base colour, and its contributions
\* are exactly the pairs (hex of base i, coefficient i) for the i with
\* coefficient i > 1e-3, in increasing i.
C2_CoefficientsAligned ==
    Returned =>
        \A r \in 1..Len(results) :
            LET alpha == results[r].alpha
                contrib == results[r].contributions
            IN  /\ DOMAIN alpha = 1..Len(base_colors)
                /\ Len(contrib) = Cardinality(Significant(alpha))
                /\ \A j \in 1..Len(contrib) :
                      LET i == NthOf(Significant(alpha), j)
                      IN  contrib[j] = <<base_colors[i].HEX, alpha[i]>>

\* a result over two bases with one coefficient kept and one filtered out
C2_Witness ==
    /\ Returned
    /\ Len(base_colors) = 2
    /\ \E r \in 1..Len(results) :
          /\ results[r].alpha[1] <= Cutoff
          /\ results[r].alpha[2] > Cutoff
          /\ Len(results[r].contributions) = 1

\* C3: success is exactly error <= threshold, and the two calls on the same
\* colours with different thresholds agree on the coefficients, the error and
\* the contributions of every result.
C3_ThresholdDecidesOnlySuccess ==
    Returned =>
        /\ Len(results) = Len(results2)
        /\ \A i \in 1..Len(results) :
              /\ results[i].success = (results[i].error <= threshold)
              /\ results2[i].success = (results2[i].error <= threshold2)
              /\ results[i].alpha = results2[i].alpha
              /\ results[i].error = results2[i].error
              /\ results[i].contributions = results2[i].contributions

\* the two thresholds differ and decide a result differently
C3_Witness ==
    /\ Returned
    /\ threshold /= threshold2
    /\ \E i \in 1..Len(results) :
          /\ i <= Len(results2)
          /\ results[i].success /= results2[i].success

\* C4: with an empty base sequence or an empty target sequence the call returns
\* the empty sequence, raises nothing and never invokes the solver.
C4_EmptyInputEmptyResult ==
    (Returned /\ (base_colors = <<>> \/ target_colors = <<>>)) =>
        /\ results = <<>>
        /\ raised = "none"
        /\ solverCalls = 0

\* a call with no base colour and two targets
C4_Witness ==
    /\ Returned
    /\ base_colors = <<>>
    /\ Len(target_colors) = 2

\* what the caller of analyze_color_mix sees
Outcome == [raised |-> raised, results |-> results]

\* the outcome of a call that has nothing to do
NothingToDo == [raised |-> "none", results |-> <<>>]

ValidRGB(rgb) == \A c \in 1..3 : rgb[c] \in 0..MaxChannel

InvalidInput ==
    \/ threshold < 0
    \/ \E i \in 1..Len(base_colors) : ~ValidRGB(base_colors[i].RGB)
    \/ \E i \in 1..Len(target_colors) : ~ValidRGB(target_colors[i].RGB)

\* C6: a negative threshold or a colour with a channel outside [0,255] is
\* rejected before the solver runs: no result is computed from it.
C6_InvalidInputRejected ==
    (Returned /\ InvalidInput) =>
        /\ results = <<>>
        /\ solverCalls = 0

-----------------------------------------------------------------------------
(* Properties of the application (Spec) *)

\* the position in the colour list of the colour a widget shows at a row: the
\* row-th colour of that widget's role
PosOfRow(colors, which, row) ==
    CHOOSE p \in 1..Len(colors) :
        /\ colors[p].Label = which
        /\ Cardinality({q \in 1..p : colors[q].Label = which}) = row

CountOf(colors, which) == Cardinality({q \in 1..Len(colors) : colors[q].Label = which})

RemoveAtPos(s, p) == [i \in 1..Len(s) - 1 |-> IF i < p THEN s[i] ELSE s[i + 1]]

ItemsPointAtTheirColour ==
    \A which \in {BaseLabel, TargetLabel} :
        /\ Len(ListOf(which)) = CountOf(picked_colors, which)
        /\ \A row \in 1..Len(ListOf(which)) :
              LET item == ListOf(which)[row]
                  p == PosOfRow(picked_colors, which, row)
              IN  /\ item.idx = p
                  /\ item.text[2] = picked_colors[p].HEX
                  /\ item.text[3] = picked_colors[p].RGB
                  /\ item.icon = picked_colors[p].RGB

DeleteRemovesShownColour ==
    \A which \in {BaseLabel, TargetLabel}, row \in 1..MaxColors + 1 :
        delete_color(which, row) =>
            picked_colors' =
                RemoveAtPos(picked_colors, PosOfRow(picked_colors, which, row))

EditRelabelsShownColour ==
    \A which \in {BaseLabel, TargetLabel}, row \in 1..MaxColors + 1 :
        edit_label(which, row, TRUE, "a") =>
            LET p == PosOfRow(picked_colors, which, row)
            IN  /\ Len(picked_colors') = Len(picked_colors)
                /\ \A i \in 1..Len(picked_colors) :
                      picked_colors'[i] =
                          IF i = p THEN [picked_colors[i] EXCEPT !.CustomLabel = "a"]
                          ELSE picked_colors[i]

\* C7: after every handler each list item's stored index is the position in
\* picked_colors of the colour it shows; a delete through an item removes
\* exactly that colour and leaves the others unchanged and in order, and an
\* edit through an item relabels that colour and no other.
C7_IndexIsTheHandle ==
    /\ []ItemsPointAtTheirColour
    /\ [][DeleteRemovesShownColour /\ EditRelabelsShownColour]_vars

\* after a delete, a target item whose stored index differs from its row, beside
\* a colour that carries a custom label
C7_Witness ==
    /\ handler = "delete"
    /\ Len(picked_colors) >= 2
    /\ \E row \in 1..Len(target_list) : target_list[row].idx /= row
    /\ \E i \in 1..Len(picked_colors) : picked_colors[i].CustomLabel /= NoCustom

Exported == handler = "run_analysis" /\ message = "exported"

\* C8: the exported table has one coefficient column per base colour, in basis
\* order, and the cell of result r and base j is coefficient j of result r to 3
\* decimals when it is > 1e-3 and the empty string otherwise, duplicates of a
\* base colour included.
C8_ExportOneColumnPerBase ==
    Exported =>
        /\ Len(sheet) = Len(results) + 1
        /\ \A r \in 1..Len(results) :
              /\ Len(sheet[r + 1]) = Len(base_colors) + 1
              /\ \A j \in 1..Len(base_colors) :
                    sheet[r + 1][j + 1] =
                        IF results[r].alpha[j] > Cutoff
                        THEN Fmt3(results[r].alpha[j])
                        ELSE <<>>

-----------------------------------------------------------------------------
(* Properties of a call overlapped by list handlers (SpecConc) *)

ComputedAgainst(result, bases) ==
    /\ DOMAIN result.alpha = 1..Len(bases)
    /\ result.error =
          ErrorNorm(Fitted(result.alpha, BaseArr(bases)), normalize_rgb(result.target_rgb))
    /\ \A j \in 1..Len(result.contributions) :
          \E i \in 1..Len(bases) :
              result.contributions[j] = <<bases[i].HEX, result.alpha[i]>>

SameBasisForEveryResult ==
    /\ Len(usedBasis) = Len(results)
    /\ \A i \in 1..Len(results) :
          /\ usedBasis[i] = usedBasis[1]
          /\ usedBasis[i] = <<BaseArr(base_colors), BaseHex(base_colors)>>
          /\ ComputedAgainst(results[i], base_colors)

ResultsKeepTheirValues ==
    /\ Len(results') >= Len(results)
    /\ \A i \in 1..Len(results) : results'[i] = results[i]

\* C9: whatever the list handlers do while the call runs, every result is
\* computed against the basis taken at the start of the call, the same vectors
\* and hex codes in the same order as for the first result, and a result once
\* appended is not changed by a later change of the colour list.
C9_BasisIsASnapshot ==
    /\ []SameBasisForEveryResult
    /\ [][ResultsKeepTheirValues]_vars

\* a finished call with two results, during which the base colours of the
\* list changed
C9_Witness ==
    /\ pc = "done"
    /\ mutations > 0
    /\ Len(results) >= 2
    /\ BaseHex(RoleFilter(picked_colors, BaseLabel)) /= base_hex

====
